---- MODULE Spec2Model ----
(***************************************************************************)
(* Camera-Pan Video Combiner (src/main.py): the discovery / parse / sort / *)
(* playlist / ffmpeg pipeline and the Tk handlers and worker thread that   *)
(* drive it.                                                               *)
(*                                                                         *)
(* A character is a one-character string; a filename, a path or a playlist *)
(* line is a sequence of characters, so that basename, startswith, glob    *)
(* matching, the timestamp regular expression, strptime and the playlist   *)
(* escaping are computed on the text as the code computes them.            *)
(***************************************************************************)
EXTENDS Integers, Sequences, FiniteSets, TLC

VARIABLES
    windows,           \* the platform: TRUE = ntpath/Windows, FALSE = posixpath
    ffmpeg_available,  \* self.ffmpeg_available
    selection_mode,    \* self.selection_mode: "folder" | "files"
    input_folder,      \* self.input_folder ("" = none chosen)
    selected_files,    \* self.selected_files
    output_folder,     \* self.output_folder ("" = none chosen)
    is_processing,     \* self.is_processing
    merge_button,      \* state of self.merge_button: "disabled" | "normal"
    threads,           \* the worker threads started so far, in order
    tmpfiles,          \* the temporary playlists on disk, each named by the thread that made it
    output_file,       \* Panorama.mp4 in the output folder
    h_step,            \* position of the pipeline harness
    h_dir,             \* harness: names in the directory being searched
    h_files,           \* harness: the list handed to the function under check
    h_result,          \* harness: the list it returned or reported
    h_stamps,          \* harness: the datetimes parsed for the files of h_result
    h_playlist         \* harness: the playlist lines written for h_result

vars == <<windows, ffmpeg_available, selection_mode, input_folder, selected_files,
          output_folder, is_processing, merge_button, threads, tmpfiles, output_file,
          h_step, h_dir, h_files, h_result, h_stamps, h_playlist>>

\* self.ffmpeg_path is written once at startup and never read: it is not kept.

appVars == <<windows, ffmpeg_available, selection_mode, input_folder, selected_files,
             output_folder, is_processing, merge_button, threads, tmpfiles, output_file>>

harnessVars == <<h_step, h_dir, h_files, h_result, h_stamps, h_playlist>>

\* the merge jobs one run of the model starts at most
MaxJobs == 2

(***************************************************************************)
(* Text helpers                                                            *)
(***************************************************************************)
DigitChars == <<"0", "1", "2", "3", "4", "5", "6", "7", "8", "9">>

IsDigit(c) == \E i \in 1..10 : DigitChars[i] = c

DigitVal(c) == (CHOOSE i \in 1..10 : DigitChars[i] = c) - 1

\* int(s) for a string of decimal digits
RECURSIVE ToInt(_)
ToInt(s) ==
    IF s = <<>> THEN 0
    ELSE 10 * ToInt(SubSeq(s, 1, Len(s) - 1)) + DigitVal(s[Len(s)])

AllDigits(s, from, to) == \A j \in from..to : j <= Len(s) /\ IsDigit(s[j])

StartsWith(s, p) == Len(s) >= Len(p) /\ SubSeq(s, 1, Len(p)) = p

EndsWith(s, p) == Len(s) >= Len(p) /\ SubSeq(s, Len(s) - Len(p) + 1, Len(s)) = p

UpperChars == <<"A", "C", "E", "I", "M", "O", "P", "R", "V">>

LowerChars == <<"a", "c", "e", "i", "m", "o", "p", "r", "v">>

\* str.lower() on the letters that occur in the names of this model
LowerChar(c) ==
    IF \E i \in 1..Len(UpperChars) : UpperChars[i] = c
    THEN LowerChars[CHOOSE i \in 1..Len(UpperChars) : UpperChars[i] = c]
    ELSE c

Lower(s) == [i \in 1..Len(s) |-> LowerChar(s[i])]

\* the path separators os.path recognises on the platform
Separators(win) == IF win THEN {"/", "\\"} ELSE {"/"}

\* os.path.basename: what follows the last separator
Basename(win, path) ==
    LET cuts == {i \in 1..Len(path) : path[i] \in Separators(win)}
        last == IF cuts = {} THEN 0 ELSE CHOOSE i \in cuts : \A j \in cuts : j <= i
    IN  SubSeq(path, last + 1, Len(path))

\* os.path.join(folder, name) for a relative name: os.sep is put between
JoinPath(win, folder, name) == folder \o (IF win THEN <<"\\">> ELSE <<"/">>) \o name

RecM0 == <<"R", "e", "c", "M", "0">>

(***************************************************************************)
(* Filename Parser: re.search(r'RecM0\d+_(\d{8})_(\d{6})') and strptime    *)
(***************************************************************************)
DateDigits == 8

TimeDigits == 6

\* the pattern matches at position i: RecM0, one or more digits (k of them, the
\* whole run, since an underscore must follow), _, 8 digits, _, 6 digits
MatchesAt(name, i, k) ==
    /\ i + 4 <= Len(name)
    /\ SubSeq(name, i, i + 4) = RecM0
    /\ AllDigits(name, i + 5, i + 4 + k)
    /\ i + 5 + k <= Len(name) /\ name[i + 5 + k] = "_"
    /\ AllDigits(name, i + 6 + k, i + 5 + k + DateDigits)
    /\ i + 6 + k + DateDigits <= Len(name) /\ name[i + 6 + k + DateDigits] = "_"
    /\ AllDigits(name, i + 7 + k + DateDigits, i + 6 + k + DateDigits + TimeDigits)

MatchStarts(name) == {i \in 1..Len(name) : \E k \in 1..Len(name) : MatchesAt(name, i, k)}

\* re.search: the leftmost match, as <<group(1), group(2)>>, or <<>> for None
Search(name) ==
    IF MatchStarts(name) = {} THEN <<>>
    ELSE LET i == CHOOSE x \in MatchStarts(name) : \A y \in MatchStarts(name) : x <= y
             k == CHOOSE x \in 1..Len(name) : MatchesAt(name, i, x)
             d == i + 6 + k
             t == d + DateDigits + 1
         IN  <<SubSeq(name, d, d + DateDigits - 1),
               SubSeq(name, t, t + TimeDigits - 1)>>

IsLeap(y) == (y % 4 = 0 /\ y % 100 # 0) \/ y % 400 = 0

DaysInMonth(y, m) ==
    IF m = 2 THEN (IF IsLeap(y) THEN 29 ELSE 28)
    ELSE IF m \in {4, 6, 9, 11} THEN 30 ELSE 31

\* a conversion that takes every day up to 31 in every month
StrptimeAnyDay(date_str, time_str) ==
    LET y  == ToInt(SubSeq(date_str, 1, 4))
        mo == ToInt(SubSeq(date_str, 5, 6))
        d  == ToInt(SubSeq(date_str, 7, 8))
        h  == ToInt(SubSeq(time_str, 1, 2))
        mi == ToInt(SubSeq(time_str, 3, 4))
        s  == ToInt(SubSeq(time_str, 5, 6))
    IN  IF y >= 1 /\ mo \in 1..12 /\ d \in 1..31 /\ h \in 0..23 /\ mi \in 0..59 /\ s \in 0..59
        THEN <<y, mo, d, h, mi, s>> ELSE <<>>

\* datetime.datetime.strptime(date_str + "_" + time_str, "%Y%m%d_%H%M%S") on
\* 8 + 6 digits: the directive patterns leave two digits to each of m, d, H, M, S
\* (%m 01-12, %d 01-31, %H 00-23, %M 00-59, %S 00-61), then the datetime
\* constructor rejects year 0, a day past the month's end and a second over 59.
\* The result is the datetime's fields, or <<>> for ValueError.
Strptime(date_str, time_str) ==
    LET y  == ToInt(SubSeq(date_str, 1, 4))
        mo == ToInt(SubSeq(date_str, 5, 6))
        d  == ToInt(SubSeq(date_str, 7, 8))
        h  == ToInt(SubSeq(time_str, 1, 2))
        mi == ToInt(SubSeq(time_str, 3, 4))
        s  == ToInt(SubSeq(time_str, 5, 6))
        formatOk == /\ mo \in 1..12 /\ d \in 1..31
                    /\ h \in 0..23 /\ mi \in 0..59 /\ s \in 0..61
        valueOk  == y >= 1 /\ d <= DaysInMonth(y, mo) /\ s <= 59
    IN  IF formatOk /\ valueOk THEN <<y, mo, d, h, mi, s>> ELSE <<>>

\* lines 611-626 for one file: the datetime, or <<>> when the file is skipped
\* (no match, or the ValueError of strptime caught at line 623)
ParseTimestamp(win, file_path) ==
    LET match == Search(Basename(win, file_path))
    IN  IF match = <<>> THEN <<>> ELSE Strptime(match[1], match[2])

\* datetime comparison: lexicographic on (year, month, day, hour, minute, second)
DtLess(a, b) ==
    \E i \in 1..6 : a[i] < b[i] /\ \A j \in 1..(i - 1) : a[j] = b[j]

\* a loop that gives up the whole batch at the first file it cannot parse
ParsedFilesOrNothing(win, video_files) ==
    IF \E i \in 1..Len(video_files) : ParseTimestamp(win, video_files[i]) = <<>>
    THEN <<>>
    ELSE [i \in 1..Len(video_files) |->
            [dt |-> ParseTimestamp(win, video_files[i]), file_path |-> video_files[i]]]

\* parsed_files after the loop of lines 610-626: (dt, file_path) per parsable file,
\* in input order
RECURSIVE ParsedFiles(_, _)
ParsedFiles(win, video_files) ==
    IF video_files = <<>> THEN <<>>
    ELSE LET rest == ParsedFiles(win, SubSeq(video_files, 1, Len(video_files) - 1))
             file_path == video_files[Len(video_files)]
             dt == ParseTimestamp(win, file_path)
         IN  IF dt = <<>> THEN rest
             ELSE Append(rest, [dt |-> dt, file_path |-> file_path])

\* x put in front, whatever its key
InsertFirst(sorted, x) == <<x>> \o sorted

\* x put behind every entry whose key is not greater (what a stable sort does
\* with the entries taken left to right)
InsertByDt(sorted, x) ==
    LET n == Cardinality({i \in 1..Len(sorted) : ~DtLess(x.dt, sorted[i].dt)})
    IN  SubSeq(sorted, 1, n) \o <<x>> \o SubSeq(sorted, n + 1, Len(sorted))

\* list.sort(key=lambda x: x[0]): a stable ascending sort
RECURSIVE SortByDt(_)
SortByDt(parsed) ==
    IF parsed = <<>> THEN <<>>
    ELSE InsertByDt(SortByDt(SubSeq(parsed, 1, Len(parsed) - 1)), parsed[Len(parsed)])

\* parse_and_sort_files
ParseAndSortFiles(win, video_files) ==
    LET parsed_files == SortByDt(ParsedFiles(win, video_files))
    IN  [i \in 1..Len(parsed_files) |-> parsed_files[i].file_path]

(***************************************************************************)
(* File Discovery                                                          *)
(***************************************************************************)
\* video_extensions (line 575), each without its leading '*'
video_extensions ==
    << <<".", "m", "p", "4">>, <<".", "M", "P", "4">>,
       <<".", "a", "v", "i">>, <<".", "A", "V", "I">>,
       <<".", "m", "o", "v">>, <<".", "M", "O", "V">> >>

\* os.path.normcase, which fnmatch applies to the name and to the pattern:
\* lower case on Windows, nothing on POSIX
NormCase(win, s) == IF win THEN Lower(s) ELSE s

\* fnmatch of a name against the pattern  <prefix>*<suffix>
FnMatch(win, name, prefix, suffix) ==
    LET n == NormCase(win, name)
    IN  /\ Len(n) >= Len(prefix) + Len(suffix)
        /\ StartsWith(n, NormCase(win, prefix))
        /\ EndsWith(n, NormCase(win, suffix))

\* glob.glob(os.path.join(input_folder, f"RecM0*{ext}")) in a directory that
\* holds dir_names
Glob(win, folder, dir_names, ext) ==
    {JoinPath(win, folder, n) : n \in {x \in dir_names : FnMatch(win, x, RecM0, ext)}}

\* what the six glob calls of the loop of lines 578-580 return, in turn
GlobHits(win, folder, dir_names) ==
    [e \in 1..Len(video_extensions) |-> Glob(win, folder, dir_names, video_extensions[e])]

\* the sequences that list each element of S once
Orders(S) ==
    {q \in [1..Cardinality(S) -> S] : \A i, j \in 1..Cardinality(S) : q[i] = q[j] => i = j}

\* lines 576-584: the hits are added to the set video_files (line 581), and
\* list(video_files) gives them in an order that is not fixed: every list that
\* can come out
VideoFileLists(hits) == Orders(UNION {hits[e] : e \in 1..Len(hits)})

\* a loop that keeps every chosen path
KeepAllFiles(win, files) == files

\* the loop of lines 475-480 of browse_input_files: valid_files, the paths whose
\* basename starts with RecM0
ValidFiles(win, files) ==
    SelectSeq(files, LAMBDA file_path : StartsWith(Basename(win, file_path), RecM0))

\* ... and invalid_files, the basenames of the others, which lines 500-503 log
InvalidFiles(win, files) ==
    LET others == SelectSeq(files, LAMBDA file_path : ~StartsWith(Basename(win, file_path), RecM0))
    IN  [i \in 1..Len(others) |-> Basename(win, others[i])]

\* a replacement that stops after the first occurrence of c
ReplaceFirst(s, c, rep) ==
    IF \E i \in 1..Len(s) : s[i] = c
    THEN LET i == CHOOSE x \in 1..Len(s) : s[x] = c /\ \A y \in 1..(x - 1) : s[y] # c
         IN  SubSeq(s, 1, i - 1) \o rep \o SubSeq(s, i + 1, Len(s))
    ELSE s

(***************************************************************************)
(* Concatenation Planner                                                   *)
(***************************************************************************)
\* str.replace(c, rep) for a one-character c
RECURSIVE Replace(_, _, _)
Replace(s, c, rep) ==
    IF s = <<>> THEN <<>>
    ELSE (IF s[1] = c THEN rep ELSE <<s[1]>>) \o Replace(SubSeq(s, 2, Len(s)), c, rep)

\* the two replacements in the other order: quotes first, then backslashes
EscapeQuotesFirst(video_file) ==
    Replace(Replace(video_file, "'", <<"\\", "'">>), "\\", <<"\\", "\\">>)

\* line 664: video_file.replace('\\', '\\\\').replace("'", "\\'")
EscapePath(video_file) ==
    Replace(Replace(video_file, "\\", <<"\\", "\\">>), "'", <<"\\", "'">>)

\* line 665: f"file '{escaped_path}'\n"
ConcatLine(video_file) ==
    <<"f", "i", "l", "e", " ", "'">> \o EscapePath(video_file) \o <<"'", "\n">>

\* the lines the loop of lines 662-666 writes for video_files
ConcatLines(video_files) == [i \in 1..Len(video_files) |-> ConcatLine(video_files[i])]

(***************************************************************************)
(* The names and paths the inputs are drawn from                           *)
(***************************************************************************)
\* n written with w decimal digits, leading zeros kept
Digits(n, w) == [i \in 1..w |-> DigitChars[((n \div (10 ^ (w - i))) % 10) + 1]]

\* RecM0<cam>_<date>_<time><tail>
StampName(cam, date, time, tail) ==
    RecM0 \o cam \o <<"_">> \o Digits(date, DateDigits) \o <<"_">> \o Digits(time, TimeDigits) \o tail

DotMp4 == <<".", "m", "p", "4">>

DotMov == <<".", "m", "o", "v">>

NotesTxt == <<"n", "o", "t", "e", "s", ".", "t", "x", "t">>

\* the four files of the end-to-end scenario
E2E1 == StampName(<<"1">>, 20240101, 90000, DotMp4)

E2E2 == StampName(<<"2">>, 20240101, 91500, DotMp4)

E2E3 == StampName(<<"3">>, 20240101, 83000, DotMov)

E2EDir == {E2E1, E2E2, NotesTxt, E2E3}

\* a file whose name matches the glob patterns and the regular expression but
\* carries month 13
BadMonth == StampName(<<"1">>, 20241301, 0, DotMp4)

\* the folders that can be chosen in the folder dialog, and what each holds
FolderE2E == <<"e">>

FolderBad == <<"b">>

FolderNone == <<"n">>

InputFolders == {FolderE2E, FolderBad, FolderNone}

DirNames(folder) ==
    IF folder = FolderE2E THEN E2EDir
    ELSE IF folder = FolderBad THEN {BadMonth, NotesTxt}
    ELSE {NotesTxt}

OutputFolder == <<"o">>

\* a path as the file dialog returns it (forward slashes on every platform)
Picked(folder, name) == folder \o <<"/">> \o name

\* the selections that can be made in the file dialog of the application
Selections ==
    { <<Picked(FolderE2E, E2E1), Picked(FolderE2E, E2E3)>>,
      <<Picked(FolderE2E, NotesTxt), Picked(FolderE2E, E2E2)>>,
      <<Picked(FolderBad, BadMonth)>>,
      <<Picked(FolderNone, NotesTxt)>> }

(***************************************************************************)
(* Binary Resolver                                                         *)
(***************************************************************************)
\* what the probe of the bundled ffmpeg.exe can come to: the file is missing,
\* it exits with 0, exits with another code, times out, or cannot be launched
BundledProbes == {"missing", "exit0", "nonzero", "timeout", "oserror"}

\* ... and the probe of 'ffmpeg' on the search path
SystemProbes == {"exit0", "nonzero", "notfound", "timeout", "oserror"}

\* a resolver that asks the search path first
check_system_first(bundled, system) ==
    IF system = "exit0" THEN [available |-> TRUE, path |-> "ffmpeg"]
    ELSE IF bundled = "exit0" THEN [available |-> TRUE, path |-> "bundled"]
    ELSE [available |-> FALSE, path |-> "None"]

\* check_ffmpeg_binary: (available, executable path); the path None is "None"
check_ffmpeg_binary(bundled, system) ==
    IF bundled = "exit0" THEN [available |-> TRUE, path |-> "bundled"]
    ELSE IF system = "exit0" THEN [available |-> TRUE, path |-> "ffmpeg"]
    ELSE [available |-> FALSE, path |-> "None"]

(***************************************************************************)
(* The interactive surface: Tk handlers, each run to completion by the     *)
(* main thread                                                             *)
(***************************************************************************)
\* a value of ready that leaves ffmpeg_available out of the condition of line 519
ReadyWithoutFfmpeg(out, processing, available, mode, folder, files) ==
    IF out # <<>> /\ ~processing
    THEN (IF mode = "folder" THEN folder # <<>> ELSE files # <<>>)
    ELSE FALSE

\* a value of ready that does not look at the input selection
ReadyWithoutInput(out, processing, available, mode, folder, files) ==
    out # <<>> /\ ~processing /\ available

\* check_ready_to_merge: the value of ready
Ready(out, processing, available, mode, folder, files) ==
    IF out # <<>> /\ ~processing /\ available
    THEN (IF mode = "folder" THEN folder # <<>> ELSE files # <<>>)
    ELSE FALSE

\* ... and the state it gives the merge button
ButtonState(ready) == IF ready THEN "normal" ELSE "disabled"

\* what no job has read or been given yet
NoTrigger == [mode |-> "none", folder |-> <<>>, files |-> <<>>]

\* the worker thread as threading.Thread(target=self.merge_videos) starts it.
\* trigger is history: the mode and the selections when the button was pressed,
\* which the thread is not given and no action reads; seen_output is what line
\* 780 found, outcome how subprocess.run ended.
NewThread ==
    [pc |-> "validate_output", mode |-> "unread", input_source |-> <<>>,
     video_files |-> <<>>, has_tmp |-> FALSE, playlist |-> <<>>, created |-> 0,
     invoked |-> FALSE, available |-> "unchecked",
     confirmed |-> FALSE, unlink_failed |-> FALSE, success |-> FALSE,
     ready |-> FALSE, result |-> "running", dialog |-> "none",
     trigger |-> NoTrigger, seen_output |-> "unchecked", outcome |-> "none"]

\* the guard of line 541
AlreadyProcessing(processing) == processing

\* browse_input_folder, with the folder the dialog returned
BrowseInputFolder(folder) ==
    /\ selection_mode = "folder"
    /\ input_folder' = folder
    /\ merge_button' = ButtonState(Ready(output_folder, is_processing, ffmpeg_available,
                                         selection_mode, folder, selected_files))
    /\ UNCHANGED <<windows, ffmpeg_available, selection_mode, selected_files,
                   output_folder, is_processing, threads, tmpfiles, output_file,
                   harnessVars>>

\* browse_input_files, with the non-empty tuple of paths the dialog returned
BrowseInputFiles(files) ==
    /\ selection_mode = "files"
    /\ files # <<>>
    /\ selected_files' = ValidFiles(windows, files)
    /\ merge_button' = ButtonState(Ready(output_folder, is_processing, ffmpeg_available,
                                         selection_mode, input_folder, selected_files'))
    /\ UNCHANGED <<windows, ffmpeg_available, selection_mode, input_folder,
                   output_folder, is_processing, threads, tmpfiles, output_file>>

\* browse_output_folder
BrowseOutputFolder ==
    /\ output_folder' = OutputFolder
    /\ merge_button' = ButtonState(Ready(OutputFolder, is_processing, ffmpeg_available,
                                         selection_mode, input_folder, selected_files))
    /\ UNCHANGED <<windows, ffmpeg_available, selection_mode, input_folder,
                   selected_files, is_processing, threads, tmpfiles, output_file,
                   harnessVars>>

\* a radio button is clicked: selection_mode is set and update_input_mode runs
UpdateInputMode(mode) ==
    /\ selection_mode' = mode
    /\ selected_files' = IF mode = "folder" THEN <<>> ELSE selected_files
    /\ input_folder' = IF mode = "folder" THEN input_folder ELSE <<>>
    /\ merge_button' = ButtonState(Ready(output_folder, is_processing, ffmpeg_available,
                                         mode, input_folder', selected_files'))
    /\ UNCHANGED <<windows, ffmpeg_available, output_folder, is_processing, threads,
                   tmpfiles, output_file>>

\* the merge button is pressed (Tk runs the command of an enabled button only):
\* start_merge_process
StartMergeProcess ==
    /\ merge_button = "normal"
    /\ IF AlreadyProcessing(is_processing) \/ ~ffmpeg_available
       THEN UNCHANGED <<is_processing, merge_button, threads>>
       ELSE /\ Len(threads) < MaxJobs
            /\ is_processing' = TRUE
            /\ merge_button' = "disabled"
            /\ threads' = Append(threads,
                  [NewThread EXCEPT !.trigger = [mode |-> selection_mode,
                                                 folder |-> input_folder,
                                                 files |-> selected_files]])
    /\ UNCHANGED <<windows, ffmpeg_available, selection_mode, input_folder,
                   selected_files, output_folder, tmpfiles, output_file, harnessVars>>

(***************************************************************************)
(* The worker thread: merge_videos and what it calls, one action per block *)
(* between two points where the main thread can run a handler              *)
(***************************************************************************)
At(t, pc) == t \in 1..Len(threads) /\ threads[t].pc = pc

\* what every worker step leaves alone
WorkerFrame ==
    UNCHANGED <<windows, ffmpeg_available, selection_mode, input_folder, selected_files,
                output_folder, harnessVars>>

\* lines 752-757: os.path.exists(output_folder), which the file system decides
ValidateOutput(t) ==
    /\ At(t, "validate_output")
    /\ \E exists \in BOOLEAN :
         threads' = [threads EXCEPT ![t] =
            IF exists THEN [@ EXCEPT !.pc = "read_mode"]
            ELSE [@ EXCEPT !.pc = "reset", !.result = "no_output_folder"]]
    /\ UNCHANGED <<is_processing, merge_button, tmpfiles, output_file>>
    /\ WorkerFrame

\* lines 760-767: the mode is read, and in folder mode the folder, which must
\* exist (os.path.exists("") is False)
ReadMode(t) ==
    /\ At(t, "read_mode")
    /\ IF selection_mode = "folder"
       THEN \E exists \in (IF input_folder = <<>> THEN {FALSE} ELSE BOOLEAN) :
              threads' = [threads EXCEPT ![t] =
                 IF exists
                 THEN [@ EXCEPT !.pc = "find", !.mode = "folder", !.input_source = input_folder]
                 ELSE [@ EXCEPT !.pc = "reset", !.mode = "folder", !.result = "no_input_folder"]]
       ELSE threads' = [threads EXCEPT ![t] = [@ EXCEPT !.pc = "find", !.mode = "files"]]
    /\ UNCHANGED <<is_processing, merge_button, tmpfiles, output_file>>
    /\ WorkerFrame

\* find_video_files_in_folder, for one order video_files of the set of matches
find_video_files_in_folder(win, video_files) ==
    IF video_files = <<>> THEN <<>> ELSE ParseAndSortFiles(win, video_files)

\* process_selected_files. The attribute is read at lines 597 and 602; a handler
\* that replaces the list in between gives what one read at either time gives.
process_selected_files(win, files) ==
    IF files = <<>> THEN <<>> ELSE ParseAndSortFiles(win, files)

\* What the file dialog can have left in selected_files
SelectableFiles == {<<>>} \cup {ValidFiles(win, files) : win \in BOOLEAN, files \in Selections}

\* The values of process_selected_files and of find_video_files_in_folder on the
\* selections and folders above, computed once: FolderResults holds, for a
\* folder, one result per order in which the set of matches can be listed
SelectionResults ==
    [win \in BOOLEAN |-> [files \in SelectableFiles |-> process_selected_files(win, files)]]

FolderResults ==
    [win \in BOOLEAN |-> [folder \in InputFolders |->
        {find_video_files_in_folder(win, video_files) :
            video_files \in VideoFileLists(GlobHits(win, folder, DirNames(folder)))}]]

\* ... and the playlist lines of each list a job can come to merge
JobLists ==
    UNION {FolderResults[win][folder] : win \in BOOLEAN, folder \in InputFolders}
    \cup {SelectionResults[win][files] : win \in BOOLEAN, files \in SelectableFiles}

PlaylistLines == [video_files \in JobLists |-> ConcatLines(video_files)]

\* find_video_files (lines 561-568): the mode is read again. In folder mode
\* after merge_videos took the files branch, input_source is None and
\* os.path.join raises TypeError, which merge_videos catches at line 809.
FindVideoFiles(t) ==
    /\ At(t, "find")
    /\ IF selection_mode = "folder"
       THEN IF threads[t].mode = "files"
            THEN threads' = [threads EXCEPT ![t] =
                    [@ EXCEPT !.pc = "reset", !.result = "exception", !.dialog = "error"]]
            ELSE \E found \in FolderResults[windows][threads[t].input_source] :
                    threads' = [threads EXCEPT ![t] =
                       [@ EXCEPT !.pc = "check_files", !.video_files = found]]
       ELSE threads' = [threads EXCEPT ![t] =
               [@ EXCEPT !.pc = "check_files",
                         !.video_files = SelectionResults[windows][selected_files]]]
    /\ UNCHANGED <<is_processing, merge_button, tmpfiles, output_file>>
    /\ WorkerFrame

\* a guard that lets every list through
GuardNothing(video_files) == FALSE

\* line 769: not video_files
NoVideoFiles(video_files) == video_files = <<>>

\* lines 769-777: nothing to merge, an error dialog and out. Discovery is
\* over: the history of the trigger is dropped.
CheckFiles(t) ==
    /\ At(t, "check_files")
    /\ threads' = [threads EXCEPT ![t] =
          IF NoVideoFiles(threads[t].video_files)
          THEN [@ EXCEPT !.pc = "reset", !.result = "no_files", !.dialog = "error",
                         !.trigger = NoTrigger]
          ELSE [@ EXCEPT !.pc = "check_overwrite", !.trigger = NoTrigger]]
    /\ UNCHANGED <<is_processing, merge_button, tmpfiles, output_file>>
    /\ WorkerFrame

\* a job that goes on whatever the answer
OverwriteUnasked(exists, response) == TRUE

\* lines 780-790: the job goes on when Panorama.mp4 does not exist or the user
\* answered yes to the question
OverwriteAllowed(exists, response) == ~exists \/ response

\* lines 780-790: an existing Panorama.mp4 is overwritten only when the user
\* says yes; without the file no question is asked
CheckOverwrite(t) ==
    /\ At(t, "check_overwrite")
    /\ LET exists == output_file # "absent"
       IN  \E response \in (IF exists THEN BOOLEAN ELSE {FALSE}) :
              threads' = [threads EXCEPT ![t] =
                 IF OverwriteAllowed(exists, response)
                 THEN [@ EXCEPT !.pc = "recheck_ffmpeg", !.confirmed = response,
                                !.seen_output = output_file]
                 ELSE [@ EXCEPT !.pc = "reset", !.result = "declined",
                                !.seen_output = output_file]]
    /\ UNCHANGED <<is_processing, merge_button, tmpfiles, output_file>>
    /\ WorkerFrame

\* lines 647-650 of merge_videos_with_ffmpeg: the resolver is asked again; the
\* return of line 650 is outside the try, so the finally does not run
RecheckFfmpeg(t) ==
    /\ At(t, "recheck_ffmpeg")
    /\ \E bundled \in BundledProbes, system \in SystemProbes :
         threads' = [threads EXCEPT ![t] =
            IF check_ffmpeg_binary(bundled, system).available
            THEN [@ EXCEPT !.pc = "write_playlist", !.available = "yes"]
            ELSE [@ EXCEPT !.pc = "report", !.available = "no", !.success = FALSE]]
    /\ UNCHANGED <<is_processing, merge_button, tmpfiles, output_file>>
    /\ WorkerFrame

\* lines 654-668: the temporary file is created and the lines are written
\* (playlist is what this call wrote into its file, which nothing else writes).
\* NamedTemporaryFile can raise (nothing is created), and a write can raise
\* after n lines; both go to the except of line 728 and the finally.
WritePlaylist(t) ==
    /\ At(t, "write_playlist")
    /\ LET lines == PlaylistLines[threads[t].video_files]
       IN  \/ /\ tmpfiles' = tmpfiles \cup {t}
              /\ threads' = [threads EXCEPT ![t] =
                    [@ EXCEPT !.pc = "run_ffmpeg", !.has_tmp = TRUE, !.playlist = lines,
                              !.created = @ + 1]]
           \/ /\ UNCHANGED tmpfiles
              /\ threads' = [threads EXCEPT ![t] = [@ EXCEPT !.pc = "cleanup", !.success = FALSE]]
           \/ \E n \in 0..(Len(lines) - 1) :
                /\ tmpfiles' = tmpfiles \cup {t}
                /\ threads' = [threads EXCEPT ![t] =
                      [@ EXCEPT !.pc = "cleanup", !.has_tmp = TRUE,
                                !.playlist = SubSeq(lines, 1, n), !.created = @ + 1,
                                !.success = FALSE]]
    /\ UNCHANGED <<is_processing, merge_button, output_file>>
    /\ WorkerFrame

\* how subprocess.run can end: ffmpeg exits with 0 or with another code; ffmpeg
\* exits with 0 but wrote bytes that text=True cannot decode, and run raises
\* UnicodeDecodeError; ffmpeg cannot be launched (OSError); ffmpeg never exits
ToolOutcomes == {"exit0", "nonzero", "undecodable", "oserror", "hang"}

\* line 694: subprocess.run returned and result.returncode == 0
ToolSucceeded(outcome) == outcome = "exit0"

\* Panorama.mp4 after ffmpeg -y: written in full when ffmpeg exits with 0,
\* possibly left partial when it fails or hangs, untouched when it never started
OutputAfter(outcome, before) ==
    IF outcome \in {"exit0", "undecodable"} THEN {"merged"}
    ELSE IF outcome = "oserror" THEN {before}
    ELSE {before, "partial"}

\* lines 689-726: subprocess.run(cmd, capture_output=True, text=True), with no
\* timeout argument: it returns when ffmpeg exits, raises when ffmpeg cannot be
\* launched or its output cannot be decoded (both caught at line 723), and does
\* not return while ffmpeg runs.
RunFfmpeg(t) ==
    /\ At(t, "run_ffmpeg")
    /\ \E outcome \in ToolOutcomes :
         /\ threads' = [threads EXCEPT ![t] =
               [@ EXCEPT !.pc = IF outcome = "hang" THEN "blocked" ELSE "cleanup",
                         !.invoked = TRUE, !.outcome = outcome,
                         !.success = ToolSucceeded(outcome)]]
         /\ output_file' \in OutputAfter(outcome, output_file)
    /\ UNCHANGED <<is_processing, merge_button, tmpfiles>>
    /\ WorkerFrame

\* a clean-up that removes nothing
KeepPlaylist(files, t) == files

\* os.unlink(concat_file_path) when it succeeds: the files left on disk
Unlink(files, t) == files \ {t}

\* lines 740-747, the finally of merge_videos_with_ffmpeg: the playlist is
\* unlinked when it was created and exists; an exception of os.unlink is logged
Cleanup(t) ==
    /\ At(t, "cleanup")
    /\ IF threads[t].has_tmp /\ t \in tmpfiles
       THEN \/ /\ tmpfiles' = Unlink(tmpfiles, t)
               /\ threads' = [threads EXCEPT ![t] = [@ EXCEPT !.pc = "report"]]
            \/ /\ UNCHANGED tmpfiles
               /\ threads' = [threads EXCEPT ![t] =
                     [@ EXCEPT !.pc = "report", !.unlink_failed = TRUE]]
       ELSE /\ UNCHANGED tmpfiles
            /\ threads' = [threads EXCEPT ![t] = [@ EXCEPT !.pc = "report"]]
    /\ UNCHANGED <<is_processing, merge_button, output_file>>
    /\ WorkerFrame

\* lines 795-807: the success dialog or the error dialog
Report(t) ==
    /\ At(t, "report")
    /\ threads' = [threads EXCEPT ![t] =
          IF threads[t].success
          THEN [@ EXCEPT !.pc = "reset", !.result = "succeeded", !.dialog = "info"]
          ELSE [@ EXCEPT !.pc = "reset", !.result = "failed", !.dialog = "error"]]
    /\ UNCHANGED <<is_processing, merge_button, tmpfiles, output_file>>
    /\ WorkerFrame

\* line 816, in the finally of merge_videos. Nothing after this line reads the
\* locals of merge_videos or what the dialogs showed: they are dropped here.
ResetProcessing(t) ==
    /\ At(t, "reset")
    /\ is_processing' = FALSE
    /\ threads' = [threads EXCEPT ![t] = [NewThread EXCEPT !.pc = "recheck_ready"]]
    /\ UNCHANGED <<merge_button, tmpfiles, output_file>>
    /\ WorkerFrame

\* line 818, check_ready_to_merge on the worker thread: lines 517-523 read the
\* selections and the flags ...
RecheckReady(t) ==
    /\ At(t, "recheck_ready")
    /\ threads' = [threads EXCEPT ![t] =
          [@ EXCEPT !.pc = "config_button",
                    !.ready = Ready(output_folder, is_processing, ffmpeg_available,
                                    selection_mode, input_folder, selected_files)]]
    /\ UNCHANGED <<is_processing, merge_button, tmpfiles, output_file>>
    /\ WorkerFrame

\* ... and lines 525-528 ask the main thread to configure the button, which it
\* does when it next serves the worker's call
ConfigButton(t) ==
    /\ At(t, "config_button")
    /\ merge_button' = ButtonState(threads[t].ready)
    /\ threads' = [threads EXCEPT ![t] = [NewThread EXCEPT !.pc = "done"]]
    /\ UNCHANGED <<is_processing, tmpfiles, output_file>>
    /\ WorkerFrame

WorkerStep(t) ==
    \/ ValidateOutput(t)
    \/ ReadMode(t)
    \/ FindVideoFiles(t)
    \/ CheckFiles(t)
    \/ CheckOverwrite(t)
    \/ RecheckFfmpeg(t)
    \/ WritePlaylist(t)
    \/ RunFfmpeg(t)
    \/ Cleanup(t)
    \/ Report(t)
    \/ ResetProcessing(t)
    \/ RecheckReady(t)
    \/ ConfigButton(t)

(***************************************************************************)
(* The application                                                         *)
(***************************************************************************)
HarnessOff ==
    /\ h_step = "off"
    /\ h_dir = {}
    /\ h_files = <<>>
    /\ h_result = <<>>
    /\ h_stamps = <<>>
    /\ h_playlist = <<>>

\* the state when __init__ returns: setup_variables, setup_gui (the button is
\* created disabled and update_input_mode leaves it so), check_ffmpeg_on_startup
AppInit ==
    /\ windows \in BOOLEAN
    /\ \E bundled \in BundledProbes, system \in SystemProbes :
         ffmpeg_available = check_ffmpeg_binary(bundled, system).available
    /\ selection_mode = "folder"
    /\ input_folder = <<>>
    /\ selected_files = <<>>
    /\ output_folder = <<>>
    /\ is_processing = FALSE
    /\ merge_button = "disabled"
    /\ threads = <<>>
    /\ tmpfiles = {}
    /\ output_file \in {"absent", "old"}

Init == AppInit /\ HarnessOff

\* a step of a worker thread
Worker == \E t \in 1..MaxJobs : WorkerStep(t)

\* an event the main thread handles, or a step of a worker thread
Next ==
    \/ \E folder \in InputFolders : BrowseInputFolder(folder)
    \/ \E files \in Selections : BrowseInputFiles(files) /\ UNCHANGED harnessVars
    \/ BrowseOutputFolder
    \/ \E mode \in {"folder", "files"} : UpdateInputMode(mode) /\ UNCHANGED harnessVars
    \/ StartMergeProcess
    \/ Worker

Spec == Init /\ [][Next]_vars

\* The scheduler runs a worker thread that can take a step, the user answers
\* the dialogs the worker shows, and a process that exits is reaped; nothing
\* makes a running ffmpeg exit.
FairSpec == Spec /\ WF_vars(Worker)

(***************************************************************************)
(* The functions on their own: an input is drawn, the function is applied  *)
(***************************************************************************)
\* the length of the lists handed to parse_and_sort_files
MaxFiles == 3

\* the entries of the directory that is searched
MaxDirFiles == 3

\* the paths chosen in one file dialog
MaxPick == 2

\* the application as in AppInit, with ffmpeg found and no output file yet
IdleApp == AppInit /\ ffmpeg_available /\ output_file = "absent"

\* a second camera's file with the timestamp of E2E1
SameTime == StampName(<<"4">>, 20240101, 90000, DotMp4)

\* a file of an earlier year with a later time of day
YearBefore == StampName(<<"1">>, 20231231, 235959, DotMp4)

SorterPool ==
    {Picked(FolderE2E, n) : n \in {E2E1, E2E2, E2E3, NotesTxt, SameTime, YearBefore}}
    \cup {Picked(FolderBad, BadMonth)}

\* the four files of the end-to-end scenario, in every order
E2ELists == Orders({Picked(FolderE2E, n) : n \in E2EDir})

SorterLists == UNION {[1..n -> SorterPool] : n \in 0..MaxFiles} \cup E2ELists

\* dates and times of day as the names spell them: valid ones, month 13 and 0,
\* day 0, days past the end of a month, 29 February in leap and other years,
\* the years 0, 1 and 9999; hour 24, minute 60, second 60
ParserDates ==
    {20240315, 20241301, 20240001, 20240100, 20240230, 20240431, 20240229,
     20230229, 19000229, 20000229, 101, 10101, 99991231}

ParserTimes == {143022, 0, 235959, 240000, 6000, 60}

Stamp315 == StampName(<<"1">>, 20240315, 143022, DotMp4)

\* names with the pattern twice, the first occurrence with month 13 or valid
TwiceBadFirst == StampName(<<"1">>, 20241301, 0, <<"_">> \o E2E2)

TwiceGoodFirst == StampName(<<"1">>, 20240315, 143022, <<"_">> \o E2E2)

ParserNames ==
    {StampName(<<"1">>, d, t, DotMp4) : d \in ParserDates, t \in ParserTimes}
    \cup { <<"x", "_">> \o Stamp315,
           StampName(<<"1", "2">>, 20240315, 143022, DotMp4),
           StampName(<<"1">>, 20240315, 143022, <<"9">> \o DotMp4),
           StampName(<<>>, 20240315, 143022, DotMp4),
           RecM0 \o <<"1", "_">> \o Digits(2024031, 7) \o <<"_">> \o Digits(143022, 6) \o DotMp4,
           RecM0 \o <<"1", "_">> \o Digits(20240315, 8) \o <<"-">> \o Digits(143022, 6) \o DotMp4,
           Lower(Stamp315), NotesTxt, TwiceBadFirst, TwiceGoodFirst }

ParserLists == {<<Picked(FolderE2E, n)>> : n \in ParserNames}

\* parse_and_sort_files(h_files): the list it returns and the datetimes it sorted by
HSort ==
    /\ h_step = "listed"
    /\ h_result' = ParseAndSortFiles(windows, h_files)
    /\ h_stamps' = LET parsed_files == SortByDt(ParsedFiles(windows, h_files))
                   IN  [i \in 1..Len(parsed_files) |-> parsed_files[i].dt]
    /\ h_step' = "sorted"
    /\ UNCHANGED <<appVars, h_dir, h_files, h_playlist>>

\* parse_and_sort_files again, on the list it returned
HResort ==
    /\ h_step = "sorted"
    /\ h_files' = h_result
    /\ h_result' = ParseAndSortFiles(windows, h_result)
    /\ h_step' = "resorted"
    /\ UNCHANGED <<appVars, h_dir, h_stamps, h_playlist>>

\* the playlist merge_videos_with_ffmpeg writes for the list (lines 654-668),
\* which merge_videos hands over when it is not empty
HPlaylist ==
    /\ h_step \in {"sorted", "resorted"}
    /\ ~NoVideoFiles(h_result)
    /\ h_playlist' = ConcatLines(h_result)
    /\ h_step' = "written"
    /\ UNCHANGED <<appVars, h_dir, h_files, h_result, h_stamps>>

InitSorter ==
    /\ IdleApp
    /\ h_step = "listed"
    /\ h_dir = {}
    /\ h_files \in SorterLists \cup ParserLists
    /\ h_result = <<>>
    /\ h_stamps = <<>>
    /\ h_playlist = <<>>

NextSorter == HSort \/ HResort \/ HPlaylist

SpecSorter == InitSorter /\ [][NextSorter]_vars

\* check_ffmpeg_binary() with the two probes ending as h_files says
HResolve ==
    /\ h_step = "probing"
    /\ h_result' = check_ffmpeg_binary(h_files[1], h_files[2])
    /\ h_step' = "resolved"
    /\ UNCHANGED <<appVars, h_dir, h_files, h_stamps, h_playlist>>

\* the resolver is asked again (line 647), the probes may end otherwise
HProbeAgain ==
    /\ h_step = "resolved"
    /\ \E bundled \in BundledProbes, system \in SystemProbes : h_files' = <<bundled, system>>
    /\ h_step' = "probing"
    /\ UNCHANGED <<appVars, h_dir, h_result, h_stamps, h_playlist>>

InitResolver ==
    /\ IdleApp
    /\ h_step = "probing"
    /\ h_dir = {}
    /\ \E bundled \in BundledProbes, system \in SystemProbes : h_files = <<bundled, system>>
    /\ h_result = <<>>
    /\ h_stamps = <<>>
    /\ h_playlist = <<>>

NextResolver == HResolve \/ HProbeAgain

SpecResolver == InitResolver /\ [][NextResolver]_vars

\* the names of a folder that is merged twice: two cameras with the same
\* timestamp among them
RunPool == {E2E1, SameTime, E2E2, E2E3, YearBefore, BadMonth, NotesTxt}

\* what find_video_files_in_folder can return for the folder: one list per
\* order in which list(video_files) can give the set
FolderRuns(win, folder, dir_names) ==
    {find_video_files_in_folder(win, video_files) :
        video_files \in VideoFileLists(GlobHits(win, folder, dir_names))}

\* a run of the application in folder mode on the folder that holds h_dir ...
HFolderRun ==
    /\ h_step = "listed" /\ h_files = <<>>
    /\ h_result' \in FolderRuns(windows, FolderE2E, h_dir)
    /\ h_step' = "folder1"
    /\ UNCHANGED <<appVars, h_dir, h_files, h_stamps, h_playlist>>

\* ... and another run of the application on the same folder
HFolderRunAgain ==
    /\ h_step = "folder1"
    /\ h_playlist' \in FolderRuns(windows, FolderE2E, h_dir)
    /\ h_step' = "folder2"
    /\ UNCHANGED <<appVars, h_dir, h_files, h_result, h_stamps>>

\* a run in files mode with selected_files = h_files ...
HFilesRun ==
    /\ h_step = "listed" /\ h_dir = {}
    /\ h_result' = process_selected_files(windows, h_files)
    /\ h_step' = "files1"
    /\ UNCHANGED <<appVars, h_dir, h_files, h_stamps, h_playlist>>

\* ... and another run with the same selected_files
HFilesRunAgain ==
    /\ h_step = "files1"
    /\ h_playlist' = process_selected_files(windows, h_files)
    /\ h_step' = "files2"
    /\ UNCHANGED <<appVars, h_dir, h_files, h_result, h_stamps>>

InitRuns ==
    /\ IdleApp
    /\ h_step = "listed"
    /\ \/ /\ h_dir \in {S \in SUBSET RunPool : Cardinality(S) <= MaxDirFiles}
          /\ h_files = <<>>
       \/ /\ h_dir = {}
          /\ h_files \in UNION {[1..n -> SorterPool] : n \in 0..MaxFiles}
    /\ h_result = <<>>
    /\ h_stamps = <<>>
    /\ h_playlist = <<>>

NextRuns == HFolderRun \/ HFolderRunAgain \/ HFilesRun \/ HFilesRunAgain

SpecRuns == InitRuns /\ [][NextRuns]_vars

\* the length of the folder part of a path written to the playlist
MaxDirLen == 3

\* folder parts made of backslashes, single quotes and a letter
EscapeDirs == UNION {[1..n -> {"\\", "'", "a"}] : n \in 0..MaxDirLen}

\* C:\cam's\RecM01_20240101_000000.mp4
CamPath ==
    <<"C", ":", "\\", "c", "a", "m", "'", "s", "\\">> \o StampName(<<"1">>, 20240101, 0, DotMp4)

PlannerLists ==
    {<<d \o E2E1>> : d \in EscapeDirs} \cup {<<CamPath>>}
    \cup {<<CamPath, d \o E2E2>> : d \in EscapeDirs}

\* the lists of PlannerLists parsed, sorted and written to a playlist
InitPlanner ==
    /\ IdleApp
    /\ h_step = "listed"
    /\ h_dir = {}
    /\ h_files \in PlannerLists
    /\ h_result = <<>>
    /\ h_stamps = <<>>
    /\ h_playlist = <<>>

SpecPlanner == InitPlanner /\ [][NextSorter]_vars

\* names a directory can hold: the three extensions in lower, upper and mixed
\* case, other extensions, the prefix in lower case, not at the start, and alone
DirPool ==
    { RecM0 \o <<"1", ".", "m", "p", "4">>, RecM0 \o <<"1", ".", "M", "P", "4">>,
      RecM0 \o <<"2", ".", "M", "p", "4">>, RecM0 \o <<"3", ".", "a", "v", "i">>,
      RecM0 \o <<"4", ".", "A", "V", "I">>, RecM0 \o <<"5", ".", "m", "o", "v">>,
      RecM0 \o <<"5", ".", "M", "O", "V">>, RecM0 \o <<"6", ".", "m", "O", "v">>,
      RecM0 \o <<".", "m", "p", "4">>, RecM0 \o <<"7", ".", "m", "k", "v">>,
      RecM0 \o <<"8", "m", "p", "4">>, RecM0 \o <<"9", ".", "m", "p", "4", ".", "t">>,
      Lower(RecM0) \o <<"1", ".", "a", "v", "i">>, <<"x">> \o RecM0 \o <<"1", ".", "m", "p", "4">>,
      NotesTxt }

\* a directory of a Windows volume holds no two names that differ in case only
CanHold(win, dir_names) ==
    win => \A a, b \in dir_names : Lower(a) = Lower(b) => a = b

\* lines 575-584 of find_video_files_in_folder: video_files as a list
HFind ==
    /\ h_step = "listed"
    /\ h_result' \in VideoFileLists(GlobHits(windows, FolderE2E, h_dir))
    /\ h_step' = "found"
    /\ UNCHANGED <<appVars, h_dir, h_files, h_stamps, h_playlist>>

InitDiscovery ==
    /\ IdleApp
    /\ h_step = "listed"
    /\ h_dir \in {S \in SUBSET DirPool : Cardinality(S) <= MaxDirFiles}
    /\ CanHold(windows, h_dir)
    /\ h_files = <<>>
    /\ h_result = <<>>
    /\ h_stamps = <<>>
    /\ h_playlist = <<>>

SpecDiscovery == InitDiscovery /\ [][HFind]_vars

\* paths the file dialog can return: two of a camera, a text file, a text file
\* in a folder named RecM0x, the prefix in lower case, not at the start, and alone
PickPool ==
    { Picked(FolderE2E, E2E1), Picked(FolderBad, BadMonth), Picked(FolderE2E, NotesTxt),
      Picked(RecM0 \o <<"x">>, NotesTxt), Picked(FolderE2E, Lower(E2E1)),
      Picked(FolderE2E, <<"x">> \o E2E1), Picked(FolderE2E, RecM0) }

PickLists == UNION {[1..n -> PickPool] : n \in 1..MaxPick}

\* browse_input_files: h_files is what the dialog returned, h_result the names
\* in invalid_files
HBrowseInputFiles ==
    /\ \E files \in PickLists :
         /\ BrowseInputFiles(files)
         /\ h_files' = files
         /\ h_result' = InvalidFiles(windows, files)
    /\ h_step' = "browsed"
    /\ UNCHANGED <<h_dir, h_stamps, h_playlist>>

\* a radio button is clicked
HUpdateInputMode ==
    /\ \E mode \in {"folder", "files"} : UpdateInputMode(mode)
    /\ h_step' = "switched"
    /\ UNCHANGED <<h_dir, h_files, h_result, h_stamps, h_playlist>>

InitBrowse == AppInit /\ HarnessOff

NextBrowse ==
    \/ HBrowseInputFiles
    \/ HUpdateInputMode
    \/ \E folder \in InputFolders : BrowseInputFolder(folder)
    \/ BrowseOutputFolder

SpecBrowse == InitBrowse /\ [][NextBrowse]_vars

(***************************************************************************)
(* Claims about the application                                            *)
(***************************************************************************)
Threads == 1..Len(threads)

\* a thread that is inside merge_videos_with_ffmpeg or has just returned from it
InExecutor(t) ==
    threads[t].pc \in {"recheck_ffmpeg", "write_playlist", "run_ffmpeg", "blocked",
                       "cleanup", "report"}

\* a thread whose job is Running: it has not yet reset is_processing
Running(t) == threads[t].pc \notin {"recheck_ready", "config_button", "done"}

\* C1: no merge starts without a successful resolve: the merge button is
\* enabled only if the startup check reported ffmpeg available, a worker thread
\* exists only if it did, and a call of merge_videos_with_ffmpeg whose own
\* re-check reports unavailable has created no playlist, has not invoked the
\* concat command and returns failure.
C1_NoMergeWithoutResolve ==
    /\ merge_button = "normal" => ffmpeg_available
    /\ threads # <<>> => ffmpeg_available
    /\ \A t \in Threads :
         /\ threads[t].available = "no" =>
               /\ threads[t].created = 0 /\ t \notin tmpfiles
               /\ ~threads[t].invoked /\ ~threads[t].success
               /\ threads[t].pc \in {"report", "reset"}
               /\ threads[t].result \in {"running", "failed"}
         /\ (threads[t].created > 0 \/ threads[t].invoked) => threads[t].available = "yes"

\* C1 witness: the startup check passed, a job was started, and the re-check
\* inside merge_videos_with_ffmpeg failed: the call has returned failure
C1_Witness ==
    \E t \in Threads :
        /\ ffmpeg_available
        /\ threads[t].available = "no"
        /\ threads[t].pc = "reset" /\ threads[t].result = "failed"
        /\ threads[t].created = 0 /\ ~threads[t].invoked

\* C2: at most one merge job is in flight: no two worker threads are Running at
\* once, and the merge button is never enabled while a job is Running.
C2_SingleJobInFlight ==
    /\ Cardinality({t \in Threads : Running(t)}) <= 1
    /\ is_processing => merge_button = "disabled"

\* the part of C2 that does hold: a second worker is never started while
\* is_processing is true
C2_OneRunningWorker ==
    /\ Cardinality({t \in Threads : Running(t)}) <= 1
    /\ is_processing <=> \E t \in Threads : Running(t)

\* C3 as stated: once merge_videos_with_ffmpeg has returned, by any path, its
\* playlist no longer exists, and it created at most one.
C3_PlaylistAlwaysDeleted ==
    \A t \in Threads :
        /\ threads[t].created <= 1
        /\ threads[t].pc \in {"report", "reset"} => t \notin tmpfiles

\* C3 amended: once merge_videos_with_ffmpeg has returned, by any path, its
\* playlist no longer exists unless os.unlink itself raised (then the file stays
\* and the failure is only logged); it created at most one; and a playlist that
\* exists was created by the call of a thread.
C3_PlaylistDeletedUnlessUnlinkFails ==
    \A t \in Threads :
        /\ threads[t].created <= 1
        /\ threads[t].pc \in {"report", "reset"} =>
              (t \in tmpfiles <=> threads[t].unlink_failed)
        /\ threads[t].unlink_failed => threads[t].created = 1

\* C3 witness: ffmpeg was run on the playlist and exited with a non-zero code,
\* the call has returned and the playlist is gone
C3_Witness ==
    \E t \in Threads :
        /\ threads[t].pc = "report"
        /\ threads[t].created = 1 /\ threads[t].invoked /\ ~threads[t].success
        /\ t \notin tmpfiles

\* C6: merge_videos_with_ffmpeg is called only with a non-empty list: a thread
\* past the guard of line 769 holds at least one segment, a playlist is created
\* only for a non-empty list, and the playlist ffmpeg is run on has one line per
\* segment, so at least one.
C6_NeverEmptySegmentSet ==
    \A t \in Threads :
        /\ (InExecutor(t) \/ threads[t].pc = "check_overwrite") =>
              Len(threads[t].video_files) >= 1
        /\ threads[t].created > 0 => Len(threads[t].video_files) >= 1
        /\ threads[t].invoked =>
              /\ Len(threads[t].playlist) = Len(threads[t].video_files)
              /\ Len(threads[t].playlist) >= 1

\* C6 witness: a job found no valid file (no match, none selected, or none
\* parsable) and stopped with the error dialog, nothing created, nothing run
C6_Witness ==
    \E t \in Threads :
        /\ threads[t].pc = "reset" /\ threads[t].result = "no_files"
        /\ threads[t].dialog = "error"
        /\ threads[t].created = 0 /\ ~threads[t].invoked

\* C7: a started merge job always eventually leaves Running
C7_JobLeavesRunning == is_processing ~> ~is_processing

(***************************************************************************)
(* Claims about the sorter, the parser, discovery and the file dialog      *)
(***************************************************************************)
\* how often x occurs in the sequence q
Count(q, x) == Cardinality({i \in 1..Len(q) : q[i] = x})

\* the file name of a path of the pools: what follows the last slash
FileName(path) ==
    LET slashes == {i \in 1..Len(path) : path[i] = "/"}
        last == IF slashes = {} THEN 0 ELSE CHOOSE i \in slashes : \A j \in slashes : j <= i
    IN  SubSeq(path, last + 1, Len(path))

\* where the pattern occurs in a name: <<start, number of camera digits>>
Places(name) ==
    {ik \in (1..Len(name)) \X (1..Len(name)) : MatchesAt(name, ik[1], ik[2])}

\* the (date, time) digit strings of the occurrence at a place
DigitsAt(name, ik) ==
    <<SubSeq(name, ik[1] + 6 + ik[2], ik[1] + 5 + ik[2] + DateDigits),
      SubSeq(name, ik[1] + 7 + ik[2] + DateDigits,
             ik[1] + 6 + ik[2] + DateDigits + TimeDigits)>>

\* ... of every occurrence, and of the leftmost one
Occurrences(name) == {DigitsAt(name, ik) : ik \in Places(name)}

FirstOccurrence(name) ==
    DigitsAt(name, CHOOSE ik \in Places(name) : \A other \in Places(name) : ik[1] <= other[1])

\* the numbers a pair of digit strings spells: year, month, day, hour, minute, second
Literal(o) ==
    <<ToInt(SubSeq(o[1], 1, 4)), ToInt(SubSeq(o[1], 5, 6)), ToInt(SubSeq(o[1], 7, 8)),
      ToInt(SubSeq(o[2], 1, 2)), ToInt(SubSeq(o[2], 3, 4)), ToInt(SubSeq(o[2], 5, 6))>>

MonthLengths == <<31, 28, 31, 30, 31, 30, 31, 31, 30, 31, 30, 31>>

\* a date of the calendar (years 1 to 9999) and a time of day
ValidDateTime(dt) ==
    /\ dt[1] >= 1
    /\ dt[2] >= 1 /\ dt[2] <= 12
    /\ dt[3] >= 1
    /\ dt[3] <= IF dt[2] = 2 /\ (dt[1] % 400 = 0 \/ (dt[1] % 4 = 0 /\ dt[1] % 100 # 0))
                THEN 29 ELSE MonthLengths[dt[2]]
    /\ dt[4] <= 23 /\ dt[5] <= 59 /\ dt[6] <= 59

\* a file whose name holds the pattern, with a valid date and time in the
\* first occurrence
Parsable(path) ==
    /\ Places(FileName(path)) # {}
    /\ ValidDateTime(Literal(FirstOccurrence(FileName(path))))

\* datetimes as two numbers that compare like the datetimes
DateNum(dt) == dt[1] * 10000 + dt[2] * 100 + dt[3]

TimeNum(dt) == dt[4] * 10000 + dt[5] * 100 + dt[6]

NotAfter(a, b) ==
    DateNum(a) < DateNum(b) \/ (DateNum(a) = DateNum(b) /\ TimeNum(a) <= TimeNum(b))

\* C4: for every input list, parse_and_sort_files returns exactly the files
\* whose name matched the pattern and whose date and time parsed, each as often
\* as the input holds it; a file that does not parse is left out and takes no
\* other file of the batch with it.
C4_ExactlyTheParsableFiles ==
    h_step = "sorted" =>
        /\ \A i \in 1..Len(h_result) : Parsable(h_result[i])
        /\ \A i \in 1..Len(h_files) :
              Count(h_result, h_files[i]) =
                 IF Parsable(h_files[i]) THEN Count(h_files, h_files[i]) ELSE 0
        /\ \A i \in 1..Len(h_result) : Count(h_files, h_result[i]) > 0
        /\ \A i \in 1..Len(h_result) :
              FileName(h_result[i]) \notin {NotesTxt, BadMonth}

\* C4 witness: a batch of three with a month-13 file in the middle, the two
\* others returned
C4_Witness ==
    /\ h_step = "sorted"
    /\ Len(h_files) = 3 /\ h_files[2] = Picked(FolderBad, BadMonth)
    /\ Parsable(h_files[1]) /\ Parsable(h_files[3]) /\ h_files[1] # h_files[3]
    /\ Len(h_result) = 2

\* the order of the end-to-end scenario: 08:30, 09:00, 09:15
E2EOrder == <<Picked(FolderE2E, E2E3), Picked(FolderE2E, E2E1), Picked(FolderE2E, E2E2)>>

\* C5: the list parse_and_sort_files returns is non-decreasing by timestamp, a
\* list that is already in order comes back unchanged, and the playlist has one
\* line per returned file in the same order; the files of the end-to-end
\* scenario come out as 08:30, 09:00, 09:15.
C5_ChronologicalOrder ==
    /\ h_step \in {"sorted", "resorted", "written"} =>
          /\ Len(h_stamps) = Len(h_result)
          /\ \A i, j \in 1..Len(h_stamps) : i < j => NotAfter(h_stamps[i], h_stamps[j])
          /\ \A i \in 1..Len(h_result) : h_stamps[i] = ParseTimestamp(windows, h_result[i])
    /\ (/\ h_step = "sorted"
        /\ \A i \in 1..Len(h_files) : Parsable(h_files[i])
        /\ \A i, j \in 1..Len(h_files) :
              i < j => NotAfter(ParseTimestamp(windows, h_files[i]),
                                ParseTimestamp(windows, h_files[j])))
          => h_result = h_files
    /\ h_step = "resorted" => h_result = h_files
    /\ h_step = "written" =>
          /\ Len(h_playlist) = Len(h_result)
          /\ \A i \in 1..Len(h_result) :
                h_playlist[i] = <<"f", "i", "l", "e", " ", "'">> \o h_result[i] \o <<"'", "\n">>
    /\ (h_step \in {"sorted", "written"} /\ h_files \in E2ELists) => h_result = E2EOrder

\* C5 witness: the end-to-end files listed 09:15, notes.txt, 09:00, 08:30 and
\* the playlist written for them
C5_Witness ==
    /\ h_step = "written"
    /\ h_files = <<Picked(FolderE2E, E2E2), Picked(FolderE2E, NotesTxt),
                   Picked(FolderE2E, E2E1), Picked(FolderE2E, E2E3)>>
    /\ h_result = E2EOrder
    /\ Len(h_playlist) = 3
    /\ h_stamps = << <<2024, 1, 1, 8, 30, 0>>, <<2024, 1, 1, 9, 0, 0>>, <<2024, 1, 1, 9, 15, 0>> >>

\* the file of a one-file batch and what the name holds
OneFile == FileName(h_files[1])

ValidOccurrences == {o \in Occurrences(OneFile) : ValidDateTime(Literal(o))}

\* C10 as stated: a name that holds the pattern anywhere with a valid date and
\* time gives the timestamp written there; a name that does not hold it, or
\* holds it with an invalid date or time, gives none and the file is left out.
C10_EveryValidOccurrenceParses ==
    (h_step = "sorted" /\ h_files \in ParserLists) =>
        IF ValidOccurrences # {}
        THEN /\ h_result = h_files
             /\ \E o \in ValidOccurrences : h_stamps = <<Literal(o)>>
        ELSE h_result = <<>> /\ h_stamps = <<>>

\* C10 amended: the first (leftmost) occurrence of the pattern decides. With a
\* valid date and time there, the timestamp is the one written there; with no
\* occurrence, or an invalid date or time in the first one, there is no
\* timestamp and the file is left out, whatever follows in the name.
C10_FirstOccurrenceDecides ==
    (h_step = "sorted" /\ h_files \in ParserLists) =>
        /\ IF Places(OneFile) # {} /\ ValidDateTime(Literal(FirstOccurrence(OneFile)))
           THEN h_result = h_files /\ h_stamps = <<Literal(FirstOccurrence(OneFile))>>
           ELSE h_result = <<>> /\ h_stamps = <<>>
        /\ OneFile = Stamp315 => h_stamps = << <<2024, 3, 15, 14, 30, 22>> >>
        /\ OneFile = BadMonth => h_result = <<>>

\* C10 witness: RecM01_20240315_143022.mp4 parsed to 2024-03-15 14:30:22
C10_Witness ==
    /\ h_step = "sorted"
    /\ h_files = <<Picked(FolderE2E, Stamp315)>>
    /\ h_result = h_files
    /\ h_stamps = << <<2024, 3, 15, 14, 30, 22>> >>

\* the extension of a name, from its last dot
Extension(name) ==
    LET dots == {i \in 1..Len(name) : name[i] = "."}
    IN  IF dots = {} THEN <<>>
        ELSE SubSeq(name, CHOOSE i \in dots : \A j \in dots : j <= i, Len(name))

LowerExtensions == {<<".", "m", "p", "4">>, <<".", "a", "v", "i">>, <<".", "m", "o", "v">>}

UpperExtensions == {<<".", "M", "P", "4">>, <<".", "A", "V", "I">>, <<".", "M", "O", "V">>}

\* C8 as stated: discovery returns, each once, exactly the files whose name
\* begins with RecM0 and whose extension is mp4, avi or mov in any case.
C8_AnyCaseExtension ==
    h_step = "found" =>
        /\ \A i, j \in 1..Len(h_result) : h_result[i] = h_result[j] => i = j
        /\ {h_result[i] : i \in 1..Len(h_result)} =
              {JoinPath(windows, FolderE2E, n) :
                  n \in {x \in h_dir : /\ StartsWith(x, RecM0)
                                       /\ Lower(Extension(x)) \in LowerExtensions}}

\* C8, what does hold: discovery returns, each once, exactly the entries a
\* pattern RecM0*<ext> matches as glob matches on the platform: on Windows the
\* whole name is compared without regard to case (prefix included), elsewhere
\* the prefix must be RecM0 and the extension all lower or all upper case.
C8_PlatformGlobMatch ==
    h_step = "found" =>
        /\ \A i, j \in 1..Len(h_result) : h_result[i] = h_result[j] => i = j
        /\ {h_result[i] : i \in 1..Len(h_result)} =
              {JoinPath(windows, FolderE2E, n) :
                  n \in {x \in h_dir :
                           IF windows
                           THEN /\ StartsWith(Lower(x), Lower(RecM0))
                                /\ Lower(Extension(x)) \in LowerExtensions
                           ELSE /\ StartsWith(x, RecM0)
                                /\ Extension(x) \in LowerExtensions \cup UpperExtensions}}

\* C9: browse_input_files splits the chosen list into the paths whose file
\* name begins with RecM0 (selected_files, in order) and the others (reported by
\* name), every path in exactly one of the two; whatever is browsed or switched,
\* selected_files holds only paths whose file name begins with RecM0.
C9_SelectionPartition ==
    /\ \A i \in 1..Len(selected_files) : StartsWith(FileName(selected_files[i]), RecM0)
    /\ h_step = "browsed" =>
          /\ selected_files = SelectSeq(h_files, LAMBDA f : StartsWith(FileName(f), RecM0))
          /\ h_result = LET rejected == SelectSeq(h_files, LAMBDA f : ~StartsWith(FileName(f), RecM0))
                        IN  [i \in 1..Len(rejected) |-> FileName(rejected[i])]
          /\ Len(selected_files) + Len(h_result) = Len(h_files)

\* C9 witness: notes.txt of a folder named RecM0x chosen before a camera file:
\* the text file is reported, the camera file selected
C9_Witness ==
    /\ h_step = "browsed"
    /\ h_files = <<Picked(RecM0 \o <<"x">>, NotesTxt), Picked(FolderE2E, E2E1)>>
    /\ selected_files = <<Picked(FolderE2E, E2E1)>>
    /\ h_result = <<NotesTxt>>

(***************************************************************************)
(* Claims about the playlist                                               *)
(***************************************************************************)
\* what one character of a path becomes in the playlist
EscapedChar(c) ==
    IF c = "\\" THEN <<"\\", "\\">> ELSE IF c = "'" THEN <<"\\", "'">> ELSE <<c>>

\* the path with every character replaced by what it becomes
RECURSIVE Escaped(_)
Escaped(path) ==
    IF path = <<>> THEN <<>> ELSE EscapedChar(path[1]) \o Escaped(SubSeq(path, 2, Len(path)))

Occurs(path, c) == Cardinality({i \in 1..Len(path) : path[i] = c})

\* the path between  file '  and  '\n  on a playlist line (<<>> if the line has
\* another form)
Between(line) ==
    IF /\ Len(line) >= 8
       /\ SubSeq(line, 1, 6) = <<"f", "i", "l", "e", " ", "'">>
       /\ SubSeq(line, Len(line) - 1, Len(line)) = <<"'", "\n">>
    THEN SubSeq(line, 7, Len(line) - 2)
    ELSE <<>>

\* C11: every playlist line is  file '<escaped-path>'  where each backslash of
\* the path has become two backslashes and each single quote a backslash and the
\* quote, the backslash put before a quote not doubled; a path with neither
\* character is written as it is.
C11_TwoStepEscaping ==
    h_step = "written" =>
        /\ Len(h_playlist) = Len(h_result)
        /\ \A i \in 1..Len(h_result) :
              LET path == h_result[i]
                  out == Between(h_playlist[i])
              IN  /\ h_playlist[i] = <<"f", "i", "l", "e", " ", "'">> \o out \o <<"'", "\n">>
                  /\ out = Escaped(path)
                  /\ Occurs(out, "\\") = 2 * Occurs(path, "\\") + Occurs(path, "'")
                  /\ Occurs(out, "'") = Occurs(path, "'")
                  /\ Len(out) = Len(path) + Occurs(path, "\\") + Occurs(path, "'")
                  /\ (Occurs(path, "\\") = 0 /\ Occurs(path, "'") = 0) => out = path

\* C11 witness: the file in a folder named '\a : the line written is
\* file '\'\\a<name>'
C11_Witness ==
    /\ h_step = "written"
    /\ h_result = << <<"'", "\\", "a">> \o E2E1 >>
    /\ h_playlist = << <<"f", "i", "l", "e", " ", "'", "\\", "'", "\\", "\\", "a">>
                          \o E2E1 \o <<"'", "\n">> >>

CamName == StampName(<<"1">>, 20240101, 0, DotMp4)

\* C12 as stated: C:\cam's\RecM01_20240101_000000.mp4 is written as C: + four
\* backslashes + cam + two backslashes + quote + s + two backslashes + the name.
C12_FourTwoTwo ==
    (h_step = "written" /\ h_result = <<CamPath>>) =>
        Between(h_playlist[1]) =
           <<"C", ":", "\\", "\\", "\\", "\\", "c", "a", "m", "\\", "\\", "'", "s", "\\", "\\">>
              \o CamName

\* C12 amended: C:\cam's\RecM01_20240101_000000.mp4 is written as C: + two
\* backslashes + cam + one backslash + quote + s + two backslashes + the name.
C12_TwoOneTwo ==
    (h_step = "written" /\ h_result = <<CamPath>>) =>
        Between(h_playlist[1]) =
           <<"C", ":", "\\", "\\", "c", "a", "m", "\\", "'", "s", "\\", "\\">> \o CamName

\* C12 witness: the playlist written for that path alone
C12_Witness ==
    /\ h_step = "written"
    /\ h_files = <<CamPath>>
    /\ h_result = <<CamPath>>
    /\ Len(h_playlist) = 1
    /\ SubSeq(h_playlist[1], 1, 18) =
          <<"f", "i", "l", "e", " ", "'", "C", ":", "\\", "\\", "c", "a", "m", "\\", "'", "s", "\\", "\\">>

(***************************************************************************)
(* Claims about the job: overwrite, result, resolver                       *)
(***************************************************************************)
\* C13: when Panorama.mp4 exists at the check of line 780, the playlist is
\* created and ffmpeg is invoked only after the user confirmed the overwrite; a
\* job whose user declined ends with no playlist, no invocation, the output
\* file as it was and no error dialog.
C13_OverwriteOnlyAfterConfirmation ==
    \A t \in Threads :
        /\ (threads[t].created > 0 \/ threads[t].invoked \/ InExecutor(t)) =>
              /\ threads[t].seen_output # "unchecked"
              /\ threads[t].seen_output # "absent" => threads[t].confirmed
        /\ threads[t].result = "declined" =>
              /\ threads[t].pc = "reset"
              /\ threads[t].seen_output \notin {"unchecked", "absent"}
              /\ ~threads[t].confirmed
              /\ threads[t].created = 0 /\ t \notin tmpfiles
              /\ ~threads[t].invoked
              /\ output_file = threads[t].seen_output
              /\ threads[t].dialog = "none"

\* C13 witness: the user declined to overwrite the Panorama.mp4 of an earlier
\* run, which is still there
C13_Witness ==
    \E t \in Threads :
        /\ threads[t].result = "declined"
        /\ threads[t].seen_output = "old" /\ output_file = "old"
        /\ ~threads[t].invoked /\ threads[t].created = 0

\* a thread whose call of merge_videos_with_ffmpeg has returned after ffmpeg
\* was run
Returned(t) ==
    /\ threads[t].invoked
    /\ threads[t].pc \in {"report", "reset"}

\* ffmpeg exited with code 0 (whether or not subprocess.run could return it)
ExitedZero(t) == threads[t].outcome \in {"exit0", "undecodable"}

\* C14 as stated: merge_videos_with_ffmpeg reports success exactly when ffmpeg
\* exited with code 0; a failure is surfaced with the error dialog and a success
\* with the success dialog; a failed deletion of the playlist changes nothing.
C14_SuccessIffExitZero ==
    \A t \in Threads :
        /\ Returned(t) => (threads[t].success <=> ExitedZero(t))
        /\ (Returned(t) /\ threads[t].pc = "reset") =>
              /\ threads[t].result = (IF ExitedZero(t) THEN "succeeded" ELSE "failed")
              /\ threads[t].dialog = (IF ExitedZero(t) THEN "info" ELSE "error")

\* C14, what does hold: success is reported exactly when subprocess.run
\* returned and the return code was 0; every other end (another code, an
\* exception of subprocess.run) is a failure with the error dialog; and the
\* result is the same whether or not the playlist could be deleted.
C14_SuccessIffRunReturnedZero ==
    \A t \in Threads :
        /\ Returned(t) => (threads[t].success <=> threads[t].outcome = "exit0")
        /\ (Returned(t) /\ threads[t].pc = "reset") =>
              /\ threads[t].result = (IF threads[t].outcome = "exit0" THEN "succeeded" ELSE "failed")
              /\ threads[t].dialog = (IF threads[t].outcome = "exit0" THEN "info" ELSE "error")
        /\ threads[t].unlink_failed => threads[t].pc \in {"report", "reset"}

\* the playlist could not be deleted and the job is reported as succeeded
C14_SucceededThoughUnlinkFailed ==
    \E t \in Threads :
        /\ threads[t].unlink_failed /\ t \in tmpfiles
        /\ threads[t].outcome = "exit0"
        /\ threads[t].result = "succeeded" /\ threads[t].dialog = "info"

\* C15: check_ffmpeg_binary returns (true, colocated path) whenever the
\* colocated probe exits with 0; when the colocated tool is missing, exits with
\* another code, times out or cannot be launched, the search-path probe alone
\* decides: (true, 'ffmpeg') if it exits with 0, else (false, no path); the path
\* is present exactly when available is true.
C15_ColocatedFirstThenSearchPath ==
    h_step = "resolved" =>
        /\ h_files[1] = "exit0" => (h_result.available /\ h_result.path = "bundled")
        /\ h_files[1] \in {"missing", "nonzero", "timeout", "oserror"} =>
              IF h_files[2] = "exit0"
              THEN h_result.available /\ h_result.path = "ffmpeg"
              ELSE ~h_result.available /\ h_result.path = "None"
        /\ h_result.available <=> h_result.path # "None"

\* C15 witness: the colocated probe timed out and the search path has a
\* working ffmpeg
C15_Witness ==
    /\ h_step = "resolved"
    /\ h_files = <<"timeout", "exit0">>
    /\ h_result = [available |-> TRUE, path |-> "ffmpeg"]

(***************************************************************************)
(* Claims about two runs                                                   *)
(***************************************************************************)
\* C16 as stated: two runs over the same input files give the same order, in
\* folder mode as well as in files mode, equal timestamps included.
C16_SameOrderInBothRuns ==
    h_step \in {"folder2", "files2"} => h_playlist = h_result

\* two files of the folder carry the same valid timestamp
TieInFolder ==
    \E a, b \in h_dir :
        /\ a # b
        /\ Parsable(a) /\ Parsable(b)
        /\ Literal(FirstOccurrence(a)) = Literal(FirstOccurrence(b))

\* C16, what does hold: two runs in files mode with the same selected_files
\* give the same order; two runs on a folder give the same files, each in
\* non-decreasing order of time, and the same order when no two files of the
\* folder carry the same timestamp.
C16_SameOrderUnlessTieInFolder ==
    /\ h_step = "files2" => h_playlist = h_result
    /\ h_step = "folder2" =>
          /\ {h_result[i] : i \in 1..Len(h_result)} = {h_playlist[i] : i \in 1..Len(h_playlist)}
          /\ Len(h_result) = Len(h_playlist)
          /\ ~TieInFolder => h_playlist = h_result

(***************************************************************************)
(* Claims about the job and the handlers that run beside it                *)
(***************************************************************************)
\* what a job discovers from the mode and the selection its trigger saw
Triggered(trigger) ==
    IF trigger.mode = "folder"
    THEN (IF trigger.folder \in InputFolders
          THEN FolderResults[windows][trigger.folder] ELSE {<<>>})
    ELSE {SelectionResults[windows][trigger.files]}

\* C17 as stated: a job discovers its files through the one mode, and from the
\* selection, that were in effect when the button was pressed, whatever
\* handlers run while it is Running; it never mixes the two modes.
C17_DiscoversWhatWasTriggered ==
    \A t \in Threads :
        /\ threads[t].pc = "check_files" =>
              /\ threads[t].mode = threads[t].trigger.mode
              /\ threads[t].video_files \in Triggered(threads[t].trigger)
        /\ threads[t].result # "exception"

\* resolver, input and output selections are valid and no job is Running
CanMerge ==
    /\ ffmpeg_available
    /\ output_folder # <<>>
    /\ ~is_processing
    /\ \/ selection_mode = "folder" /\ input_folder # <<>>
       \/ selection_mode = "files" /\ selected_files # <<>>

\* the ways merge_videos returns
ExitPaths ==
    {"no_output_folder", "no_input_folder", "no_files", "declined", "failed",
     "succeeded", "exception"}

\* every exit of merge_videos leads into its finally block, and no thread that
\* has not finished or is not waiting for ffmpeg is without a next step
C18_ExitsReachFinally ==
    \A t \in Threads :
        /\ threads[t].result \in ExitPaths \cup {"running"}
        /\ threads[t].result \in ExitPaths <=> threads[t].pc = "reset"
        /\ threads[t].pc \notin {"done", "blocked"} => ENABLED WorkerStep(t)
        /\ threads[t].result = "no_output_folder" =>
              /\ threads[t].mode = "unread"
              /\ threads[t].video_files = <<>>
              /\ threads[t].created = 0 /\ t \notin tmpfiles
              /\ ~threads[t].invoked

\* the finally block: is_processing is reset, then the worker evaluates whether
\* a merge is possible and gives the button the state that goes with it
C18_FinallyResets ==
    \A t \in Threads :
        /\ (threads[t].pc = "reset" /\ threads'[t].pc # "reset") =>
              /\ ~is_processing'
              /\ threads'[t].pc = "recheck_ready"
        /\ (threads[t].pc = "recheck_ready" /\ threads'[t].pc # "recheck_ready") =>
              /\ threads'[t].pc = "config_button"
              /\ threads'[t].ready = CanMerge
        /\ (threads[t].pc = "config_button" /\ threads'[t].pc # "config_button") =>
              /\ threads'[t].pc = "done"
              /\ merge_button' = (IF threads[t].ready THEN "normal" ELSE "disabled")

====
